---- MODULE Spec2Model ----
(***************************************************************************)
(* EV rental chat agent (ev_app): the record store (identities, profiles, *)
(* vehicles, transactions), the four agent tools of dspy_agent.py, the    *)
(* chat turn and the confirmation entry point of views.py, and the bulk   *)
(* inventory load.                                                        *)
(*                                                                         *)
(* Record ids are positions in the store's sequences (ids are handed out  *)
(* 1, 2, 3, ... and no operation of the application deletes a record).    *)
(* Timestamps, range_km and price_per_day are payload no operation        *)
(* branches on; they are left out of the records.                         *)
(***************************************************************************)
EXTENDS Integers, Sequences, FiniteSets, TLC

----------------------------------------------------------------------------
(* Bounds of the model *)

MaxUsers == 2       \* identities the store may hold
MaxCars == 2        \* vehicles the store may hold
MaxTxn == 1         \* transactions the store may hold
MaxLog == 2         \* entries a session's conversation log may hold
MaxRows == 1        \* rows of one inventory CSV file
MaxProse == 2       \* tokens of prose before and after an embedded JSON object
MaxLedger == 2      \* transactions of the store that cancellations start from

----------------------------------------------------------------------------
(* Strings.  A model name or a query is a sequence of characters, so that *)
(* substring matching and case folding are computed, not assumed.         *)

Lower(c) ==
    CASE c = "X" -> "x"
      [] c = "P" -> "p"
      [] OTHER -> c

\* model_name__contains: q occurs in name at some offset, case kept
icontains_cs(name, q) ==
    \E i \in 0..(Len(name) - Len(q)) :
        \A k \in 1..Len(q) : name[i + k] = q[k]

\* model_name__icontains: q occurs in name at some offset, ignoring case
icontains(name, q) ==
    \E i \in 0..(Len(name) - Len(q)) :
        \A k \in 1..Len(q) : Lower(name[i + k]) = Lower(q[k])

ModelX == <<"X">>
ModelXPro == <<"X", "P">>
ModelNames == {ModelX, ModelXPro}
Queries == {<< >>, <<"x">>, <<"P">>, <<"X", "P">>, <<"q">>}

CarStatuses == {"AVAILABLE", "RENTED", "MAINTENANCE"}
TxnTypes == {"TEST_DRIVE", "PURCHASE"}
\* the type argument is the engine's: a type of the model or any other string
TypeArgs == {"TEST_DRIVE", "RENTAL"}
TxnStatuses == {"DRAFT", "CONFIRMED", "CANCELLED"}

Null == "NULL"
FullNames == {"Alice", "Bob"}
Nicknames == {"Al"}
LicenseIds == {"X123"}
Phones == {"", "081"}

----------------------------------------------------------------------------
(* Texts.  A text is a sequence of tokens [t, v]: braces, prose words, the *)
(* members of the draft JSON object, and the fixed messages of the tools  *)
(* and views (v carries the id or the vehicle the message names).         *)

Tok(t, v) == [t |-> t, v |-> v]
LB == Tok("{", 0)
RB == Tok("}", 0)
W == Tok("word", 0)
META == Tok("meta:draft_created", 0)
METAUP == Tok("META:DRAFT_CREATED", 0)
MSG(c) == Tok("message", c)
TID(n) == Tok("transaction_id", n)

IsMarker(tok) == tok.t \in {"meta:draft_created", "META:DRAFT_CREATED"}
IsMember(tok) == tok.t \in {"message", "transaction_id"} \/ IsMarker(tok)

NameNo(name) == IF name = ModelX THEN 1 ELSE 2

\* create_transaction_draft's message for a vehicle, as the text shown
DraftMsg(c) == <<Tok("I have created a draft request for", c)>>

\* json.dumps(response_data): message, transaction_id, meta, in that order
DraftJson(c, n) == <<LB, MSG(c), TID(n), META, RB>>

----------------------------------------------------------------------------
(* views.extract_json_widget *)

\* where re.search can start: a "{" with the marker after it and a "}"
\* after the marker
StartsMatch(text, i) ==
    /\ text[i] = LB
    /\ \E j \in (i + 1)..Len(text) :
          /\ IsMarker(text[j])
          /\ \E k \in (j + 1)..Len(text) : text[k] = RB

\* re.search(r'(\{.*"meta":\s*"draft_created".*\})', DOTALL | IGNORECASE):
\* the leftmost start, and greedy .* running to the last "}" of the text;
\* << >> when there is no match
regex_group(text) ==
    IF \E i \in 1..Len(text) : StartsMatch(text, i)
    THEN LET i == CHOOSE a \in 1..Len(text) :
                     StartsMatch(text, a) /\ \A b \in 1..(a - 1) : ~StartsMatch(text, b)
             e == CHOOSE a \in 1..Len(text) :
                     text[a] = RB /\ \A b \in (a + 1)..Len(text) : text[b] # RB
         IN  SubSeq(text, i, e)
    ELSE << >>

\* json.loads accepts the string iff it is one object: "{", members, "}"
json_valid(str) ==
    /\ Len(str) >= 2
    /\ str[1] = LB
    /\ str[Len(str)] = RB
    /\ \A k \in 2..(Len(str) - 1) : IsMember(str[k])

\* dict.get(key) on the parsed object: the value of the last member with
\* that key (a repeated key keeps its last value), or absent
HasKey(str, key) == \E k \in 1..Len(str) : str[k].t = key
GetKey(str, key) ==
    LET k == CHOOSE a \in 1..Len(str) :
                 str[a].t = key /\ \A b \in (a + 1)..Len(str) : str[b].t # key
    IN  str[k].v

NoWidget == [found |-> FALSE, has_message |-> FALSE, message |-> 0,
             has_id |-> FALSE, transaction_id |-> 0]

\* an extraction that reads the members of the matched text without
\* json.loads
extract_json_widget_unparsed(text) ==
    LET json_str == regex_group(text)
    IN  IF json_str # << >>
        THEN [found |-> TRUE,
              has_message |-> HasKey(json_str, "message"),
              message |-> IF HasKey(json_str, "message")
                          THEN GetKey(json_str, "message") ELSE 0,
              has_id |-> HasKey(json_str, "transaction_id"),
              transaction_id |-> IF HasKey(json_str, "transaction_id")
                                 THEN GetKey(json_str, "transaction_id") ELSE 0]
        ELSE NoWidget

extract_json_widget(text) ==
    LET json_str == regex_group(text)
    IN  IF json_str # << >> /\ json_valid(json_str)
        THEN [found |-> TRUE,
              has_message |-> HasKey(json_str, "message"),
              message |-> IF HasKey(json_str, "message")
                          THEN GetKey(json_str, "message") ELSE 0,
              has_id |-> HasKey(json_str, "transaction_id"),
              transaction_id |-> IF HasKey(json_str, "transaction_id")
                                 THEN GetKey(json_str, "transaction_id") ELSE 0]
        ELSE NoWidget

----------------------------------------------------------------------------
(* State *)

VARIABLES
    users,          \* auth User: the set of identity ids that exist
    profiles,       \* UserProfile rows, by id
    cars,           \* EVCar rows, by id
    transactions,   \* Transaction rows, by id
    session,        \* per browser session: request.user and request.session
    turn,           \* the chat turn the engine is running, if any
    last            \* the last operation: its arguments and what its caller saw

vars == <<users, profiles, cars, transactions, session, turn, last>>

Sessions == {1, 2}
Anonymous == 0      \* request.user of a session nobody is logged in to
NoTurn == 0

UserEntry(text) == [role |-> "user", text |-> text]
AiEntry(text) == [role |-> "ai", text |-> text]

\* the one non-empty user_query of the model; << >> is an empty or missing one
SomeQuery == <<W>>
UserQueries == {<< >>, SomeQuery}

\* what an operation leaves in `last`: its name, how it ended for its caller
\* (out), the text it returned or displayed (res), and the transaction a
\* chat turn surfaced (draft, 0 for none)
RetDraft(op, out, res, draft) == [op |-> op, out |-> out, res |-> res, draft |-> draft]

Ret(op, out, res) == RetDraft(op, out, res, 0)

----------------------------------------------------------------------------
(* Store queries *)

Ids(rows) == DOMAIN rows

\* an identity lookup that takes every id
UserExists_unchecked(user_id) == TRUE

\* User.objects.get(id=user_id) finds a row
UserExists(user_id) == user_id \in users

\* UserProfile rows of an identity
ProfilesOf(P, user_id) == {p \in Ids(P) : P[p].user = user_id}

BlankProfile(user_id) ==
    [user |-> user_id, full_name |-> Null, nickname |-> Null,
     license_id |-> Null, phone |-> Null]

\* UserProfile.objects.create(user=user): the rows afterwards
get_or_create_always_creates(P, user_id) == Append(P, BlankProfile(user_id))

\* UserProfile.objects.get_or_create(user=user): the rows afterwards
get_or_create(P, user_id) ==
    IF ProfilesOf(P, user_id) # {} THEN P ELSE Append(P, BlankProfile(user_id))

\* the row get_or_create returns
ProfileId(P, user_id) == CHOOSE p \in ProfilesOf(P, user_id) : TRUE

\* EVCar.objects.filter(status='AVAILABLE')
AvailableCars(C) == {c \in Ids(C) : C[c].status = "AVAILABLE"}

\* .filter(model_name__icontains=q)
MatchingAvailable_any_status(C, q) ==
    {c \in Ids(C) : icontains(C[c].model_name, q)}

\* .filter(model_name__icontains=q, status='AVAILABLE')
MatchingAvailable(C, q) ==
    {c \in AvailableCars(C) : icontains(C[c].model_name, q)}

\* QuerySet.last(): the highest primary key
first_highest(S) == CHOOSE c \in S : \A d \in S : d <= c

\* QuerySet.first() of an unordered queryset orders by primary key
first(S) == CHOOSE c \in S : \A d \in S : c <= d

\* the sequences that list every element of S once (rows come back from an
\* unordered query in an order the store chooses)
Listings(S) ==
    {f \in [1..Cardinality(S) -> S] : \A i, j \in 1..Cardinality(S) : f[i] = f[j] => i = j}

Line(c) == Tok("ID | Model | Range | Price", c)

----------------------------------------------------------------------------
(* Tool library, dspy_agent.py.  The reasoning engine calls a tool during *)
(* a chat turn, any number of times, with arguments of its own choosing.  *)
(* fault: the store raises an error (not a not-found) at the tool's first *)
(* query.  date_str is accepted and never read; it is not modelled.       *)

InTurn == turn # NoTurn

\* lines 11-17: the profile rows after a successful call
onboard_rows(P, user_id, full_name, nickname, license_id, phone) ==
    LET Q == get_or_create(P, user_id)
        p == ProfileId(Q, user_id)
    IN  [Q EXCEPT ![p] = [user |-> user_id,
                          full_name |-> full_name,
                          nickname |-> nickname,
                          license_id |-> license_id,
                          phone |-> IF phone # "" THEN phone ELSE @.phone]]

UserNotFound == <<Tok("Error: User not found.", 0)>>

onboard_user(user_id, full_name, nickname, license_id, phone, fault) ==
    /\ InTurn
    /\ IF fault
       THEN /\ last' = Ret("onboard_user", "raised", <<Tok("OperationalError", 0)>>)
            /\ UNCHANGED profiles
       ELSE IF ~UserExists(user_id)
       THEN /\ last' = Ret("onboard_user", "returned", UserNotFound)
            /\ UNCHANGED profiles
       ELSE /\ profiles' = onboard_rows(profiles, user_id, full_name, nickname,
                                        license_id, phone)
            /\ last' = Ret("onboard_user", "returned",
                           <<Tok("onboarded successfully", user_id)>>)
    /\ UNCHANGED <<users, cars, transactions, session, turn>>

NoCarsFound == <<Tok("No available cars found matching your criteria.", 0)>>

search_cars(query_str, fault) ==
    LET found == IF query_str # << >>
                 THEN MatchingAvailable(cars, query_str)
                 ELSE AvailableCars(cars)
    IN  /\ InTurn
        /\ IF fault
           THEN last' = Ret("search_cars", "raised", <<Tok("OperationalError", 0)>>)
           ELSE IF found = {}
           THEN last' = Ret("search_cars", "returned", NoCarsFound)
           ELSE \E order \in Listings(found) :
                    last' = Ret("search_cars", "returned",
                                [i \in 1..Len(order) |-> Line(order[i])])
        /\ UNCHANGED <<users, profiles, cars, transactions, session, turn>>

\* a draft tool that writes the transaction before it looks for the vehicle
create_transaction_draft_writes_first(user_id, car_model_name, type, fault) ==
    LET found == MatchingAvailable(cars, car_model_name)
    IN  /\ InTurn
        /\ IF fault \/ ~UserExists(user_id)
           THEN /\ last' = Ret("create_transaction_draft", "returned",
                               <<Tok("Error creating draft", 0)>>)
                /\ UNCHANGED <<profiles, transactions>>
           ELSE /\ Len(transactions) < MaxTxn
                /\ profiles' = get_or_create(profiles, user_id)
                /\ transactions' =
                       Append(transactions,
                              [customer |-> ProfileId(profiles', user_id),
                               car |-> IF found = {} THEN 0 ELSE first(found),
                               type |-> type,
                               status |-> "DRAFT"])
                /\ last' = Ret("create_transaction_draft", "returned",
                               IF found = {}
                               THEN <<Tok("Error: Could not find an available car matching", 0)>>
                               ELSE DraftJson(NameNo(cars[first(found)].model_name),
                                              Len(transactions')))
        /\ UNCHANGED <<users, cars, session, turn>>

create_transaction_draft(user_id, car_model_name, type, fault) ==
    LET found == MatchingAvailable(cars, car_model_name)
    IN  /\ InTurn
        /\ IF fault \/ ~UserExists(user_id)
           THEN /\ last' = Ret("create_transaction_draft", "returned",
                               <<Tok("Error creating draft", 0)>>)
                /\ UNCHANGED <<profiles, transactions>>
           ELSE IF found = {}
           THEN /\ profiles' = get_or_create(profiles, user_id)
                /\ last' = Ret("create_transaction_draft", "returned",
                               <<Tok("Error: Could not find an available car matching", 0)>>)
                /\ UNCHANGED transactions
           ELSE /\ Len(transactions) < MaxTxn
                /\ profiles' = get_or_create(profiles, user_id)
                /\ transactions' =
                       Append(transactions,
                              [customer |-> ProfileId(profiles', user_id),
                               car |-> first(found),
                               type |-> type,
                               status |-> "DRAFT"])
                /\ last' = Ret("create_transaction_draft", "returned",
                               DraftJson(NameNo(cars[first(found)].model_name),
                                         Len(transactions')))
        /\ UNCHANGED <<users, cars, session, turn>>

\* Transaction.objects.update(status='CANCELLED') once the id is found: every
\* row is written
cancel_transaction_all(transaction_id, fault) ==
    /\ InTurn
    /\ IF fault
       THEN /\ last' = Ret("cancel_transaction", "raised", <<Tok("OperationalError", 0)>>)
            /\ UNCHANGED transactions
       ELSE IF transaction_id \notin Ids(transactions)
       THEN /\ last' = Ret("cancel_transaction", "returned",
                           <<Tok("Error: Transaction not found.", 0)>>)
            /\ UNCHANGED transactions
       ELSE /\ transactions' = [i \in Ids(transactions) |->
                                   [transactions[i] EXCEPT !.status = "CANCELLED"]]
            /\ last' = Ret("cancel_transaction", "returned",
                           <<Tok("has been cancelled.", transaction_id)>>)
    /\ UNCHANGED <<users, profiles, cars, session, turn>>

cancel_transaction(transaction_id, fault) ==
    /\ InTurn
    /\ IF fault
       THEN /\ last' = Ret("cancel_transaction", "raised", <<Tok("OperationalError", 0)>>)
            /\ UNCHANGED transactions
       ELSE IF transaction_id \notin Ids(transactions)
       THEN /\ last' = Ret("cancel_transaction", "returned",
                           <<Tok("Error: Transaction not found.", 0)>>)
            /\ UNCHANGED transactions
       ELSE /\ transactions' = [transactions EXCEPT ![transaction_id].status = "CANCELLED"]
            /\ last' = Ret("cancel_transaction", "returned",
                           <<Tok("has been cancelled.", transaction_id)>>)
    /\ UNCHANGED <<users, profiles, cars, session, turn>>

----------------------------------------------------------------------------
(* views.py *)

\* what the engine hands back as prediction.action: prose, a draft JSON
\* object, bare or inside prose, and braces that hold no JSON
AgentTexts ==
    {<<W>>, <<LB, W, META, RB>>}
        \cup {DraftJson(1, n) : n \in 0..MaxTxn}
        \cup {<<W>> \o DraftJson(1, n) \o <<W>> : n \in 1..MaxTxn}

\* lines 11-16: an anonymous caller gets a fresh guest identity
NewUserId == Cardinality(users) + 1
get_or_create_guest_user(s) ==
    IF session[s].user = Anonymous THEN NewUserId ELSE session[s].user

\* lines 30-41: up to the call of the agent
chat_view(s, method, user_query) ==
    LET user == get_or_create_guest_user(s)
        history == IF session[s].has_history THEN session[s].chat_history ELSE << >>
        posted == method = "POST" /\ user_query # << >>
    IN  /\ turn = NoTurn
        /\ session[s].user = Anonymous => Cardinality(users) < MaxUsers
        /\ users' = users \cup {user}
        /\ IF posted
           THEN /\ Len(history) + 2 <= MaxLog
                /\ session' = [session EXCEPT ![s] =
                       [user |-> user, has_history |-> TRUE,
                        chat_history |-> Append(history, UserEntry(user_query))]]
                /\ turn' = s
                /\ last' = Ret("chat_view", "agent called", << >>)
           ELSE /\ session' = [session EXCEPT ![s] =
                       [user |-> user, has_history |-> TRUE, chat_history |-> history]]
                /\ turn' = turn
                /\ last' = Ret("chat_view", "rendered", << >>)
        /\ UNCHANGED <<profiles, cars, transactions>>

\* Transaction.objects.filter(id=txn_id).first(), 0 for None
draft_lookup(T, txn_id) == IF txn_id \in Ids(T) THEN txn_id ELSE 0

\* lines 44-60, 66-67: the agent returned `text`
chat_view_agent_returns(text) ==
    LET s == turn
        widget_data == extract_json_widget(text)
        agent_response == IF widget_data.found /\ widget_data.has_message
                          THEN DraftMsg(widget_data.message)
                          ELSE text
        draft_txn == IF widget_data.found /\ widget_data.has_id
                        /\ widget_data.transaction_id # 0
                     THEN draft_lookup(transactions, widget_data.transaction_id)
                     ELSE 0
    IN  /\ turn # NoTurn
        /\ session' = [session EXCEPT ![s].chat_history = Append(@, AiEntry(agent_response))]
        /\ turn' = NoTurn
        /\ last' = RetDraft("chat_view", "rendered", agent_response, draft_txn)
        /\ UNCHANGED <<users, profiles, cars, transactions>>

\* line 40: EVAgent() raised.  The agent is constructed after the user entry
\* is appended and before the try block opens at line 43, so the fault leaves
\* chat_view: nothing more is appended and nothing is rendered.
chat_view_agent_init_raises ==
    /\ turn # NoTurn
    /\ last.op = "chat_view" /\ last.out = "agent called"
    /\ turn' = NoTurn
    /\ last' = Ret("chat_view", "raised", << >>)
    /\ UNCHANGED <<users, profiles, cars, transactions, session>>

\* lines 62-64: the agent, or a tool call it did not absorb, raised
chat_view_agent_raises ==
    LET s == turn
        text == <<Tok("Error:", 0)>>
    IN  /\ turn # NoTurn
        /\ session' = [session EXCEPT ![s].chat_history = Append(@, AiEntry(text))]
        /\ turn' = NoTurn
        /\ last' = Ret("chat_view", "rendered after error", text)
        /\ UNCHANGED <<users, profiles, cars, transactions>>

\* get_object_or_404(Transaction, id=...) finds a row
confirm_lookup_any_owner(T, P, transaction_id, user) == transaction_id \in Ids(T)

\* get_object_or_404(Transaction, id=..., customer__user=request.user) finds a row
confirm_lookup(T, P, transaction_id, user) ==
    /\ transaction_id \in Ids(T)
    /\ P[T[transaction_id].customer].user = user

ConfirmedMsg(transaction_id) == <<Tok("Great! Transaction is CONFIRMED.", transaction_id)>>

\* a confirmation that also takes the vehicle out of the inventory on offer
confirm_transaction_rents(s, method, transaction_id) ==
    /\ turn = NoTurn
    /\ session[s].user # Anonymous
    /\ IF method # "POST"
       THEN /\ last' = Ret("confirm_transaction", "redirect", << >>)
            /\ UNCHANGED <<transactions, cars, session>>
       ELSE IF ~confirm_lookup(transactions, profiles, transaction_id, session[s].user)
       THEN /\ last' = Ret("confirm_transaction", "Http404", << >>)
            /\ UNCHANGED <<transactions, cars, session>>
       ELSE /\ transactions' = [transactions EXCEPT ![transaction_id].status = "CONFIRMED"]
            /\ cars' = [cars EXCEPT ![transactions[transaction_id].car].status = "RENTED"]
            /\ IF ~session[s].has_history
               THEN /\ last' = Ret("confirm_transaction", "KeyError", << >>)
                    /\ UNCHANGED session
               ELSE /\ Len(session[s].chat_history) < MaxLog
                    /\ session' = [session EXCEPT ![s].chat_history =
                           Append(@, AiEntry(ConfirmedMsg(transaction_id)))]
                    /\ last' = Ret("confirm_transaction", "redirect after confirm",
                                   ConfirmedMsg(transaction_id))
    /\ UNCHANGED <<users, profiles, turn>>

\* lines 69-76; the entry point is given the calling identity
confirm_transaction(s, method, transaction_id) ==
    /\ turn = NoTurn
    /\ session[s].user # Anonymous
    /\ IF method # "POST"
       THEN /\ last' = Ret("confirm_transaction", "redirect", << >>)
            /\ UNCHANGED <<transactions, session>>
       ELSE IF ~confirm_lookup(transactions, profiles, transaction_id, session[s].user)
       THEN /\ last' = Ret("confirm_transaction", "Http404", << >>)
            /\ UNCHANGED <<transactions, session>>
       ELSE /\ transactions' = [transactions EXCEPT ![transaction_id].status = "CONFIRMED"]
            /\ IF ~session[s].has_history
               THEN \* request.session['chat_history'] raises KeyError after the save
                    /\ last' = Ret("confirm_transaction", "KeyError", << >>)
                    /\ UNCHANGED session
               ELSE /\ Len(session[s].chat_history) < MaxLog
                    /\ session' = [session EXCEPT ![s].chat_history =
                           Append(@, AiEntry(ConfirmedMsg(transaction_id)))]
                    /\ last' = Ret("confirm_transaction", "redirect after confirm",
                                   ConfirmedMsg(transaction_id))
    /\ UNCHANGED <<users, profiles, cars, turn>>

----------------------------------------------------------------------------
(* management/commands/load_inventory.py *)

\* the rows a CSV file may hold; a status is whatever the file says
SysCsvRows ==
    [model_name : {ModelX}, status : {"AVAILABLE", "RENTED"}, well_formed : {TRUE}]
CsvRows ==
    [model_name : {ModelX}, status : {"AVAILABLE", "RENTED"}, well_formed : BOOLEAN]
        \cup [model_name : {ModelXPro}, status : {"AVAILABLE", "MAINTENANCE", "SOLD"},
              well_formed : {TRUE}]
CsvFiles(Rows) == UNION {[1..n -> Rows] : n \in 0..MaxRows}

\* EVCar.objects.update_or_create(model_name=..., defaults={..., 'status': ...})
update_or_create(C, row) ==
    IF \E c \in Ids(C) : C[c].model_name = row.model_name
    THEN [c \in Ids(C) |->
             IF C[c].model_name = row.model_name
             THEN [C[c] EXCEPT !.status = row.status]
             ELSE C[c]]
    ELSE Append(C, [model_name |-> row.model_name, status |-> row.status])

\* lines 18-28: the rows in order; int() or float() of a malformed row raises
\* and ends the load, the rows before it stay written
RECURSIVE load_rows(_, _)
load_rows(C, rows) ==
    IF rows = << >> \/ ~Head(rows).well_formed
    THEN C
    ELSE load_rows(update_or_create(C, Head(rows)), Tail(rows))

load_inventory(file_exists, rows) ==
    /\ IF ~file_exists
       THEN /\ rows = << >>
            /\ last' = Ret("load_inventory", "warning: data file not found", << >>)
            /\ UNCHANGED cars
       ELSE /\ Len(load_rows(cars, rows)) <= MaxCars
            /\ cars' = load_rows(cars, rows)
            /\ last' = Ret("load_inventory",
                           IF \A i \in 1..Len(rows) : rows[i].well_formed
                           THEN "loaded" ELSE "raised", << >>)
    /\ UNCHANGED <<users, profiles, transactions, session, turn>>

----------------------------------------------------------------------------
(* The system *)

\* an empty store with one registered identity, a session nobody is logged
\* in to and a session logged in as that identity outside the chat
Init ==
    /\ users = {1}
    /\ profiles = << >>
    /\ cars = << >>
    /\ transactions = << >>
    /\ session = [s \in Sessions |->
                     [user |-> IF s = 1 THEN Anonymous ELSE 1,
                      has_history |-> FALSE,
                      chat_history |-> << >>]]
    /\ turn = NoTurn
    /\ last = [op |-> "none", out |-> "none", res |-> << >>, draft |-> 0]

UserIdArgs == 0..MaxUsers
TxnIdArgs == 0..MaxTxn

\* The whole system: every entry point and every tool.  The tools' text
\* arguments are one value each here, the store does not fail and neither
\* does the agent's construction; NextTools, NextProfiles and NextChat vary
\* them.
SysFullNames == {"Alice"}
SysPhones == {""}
SysQueries == {<<"x">>}
SysTypes == {"TEST_DRIVE"}
SysFaults == {FALSE}

Next ==
    \/ \E s \in Sessions, method \in {"GET", "POST"}, user_query \in UserQueries :
           chat_view(s, method, user_query)
    \/ \E text \in AgentTexts : chat_view_agent_returns(text)
    \/ chat_view_agent_raises
    \/ \E s \in Sessions, method \in {"GET", "POST"}, transaction_id \in TxnIdArgs :
           confirm_transaction(s, method, transaction_id)
    \/ \E user_id \in UserIdArgs, full_name \in SysFullNames, nickname \in Nicknames,
          license_id \in LicenseIds, phone \in SysPhones, fault \in SysFaults :
           onboard_user(user_id, full_name, nickname, license_id, phone, fault)
    \/ \E query_str \in SysQueries, fault \in SysFaults : search_cars(query_str, fault)
    \/ \E user_id \in UserIdArgs, car_model_name \in SysQueries, type \in SysTypes,
          fault \in SysFaults :
           create_transaction_draft(user_id, car_model_name, type, fault)
    \/ \E transaction_id \in TxnIdArgs, fault \in SysFaults :
           cancel_transaction(transaction_id, fault)
    \/ \E file_exists \in BOOLEAN, rows \in CsvFiles(SysCsvRows) :
           load_inventory(file_exists, rows)

Spec == Init /\ [][Next]_vars

\* The tools over the inventory: one chat turn in which the engine searches,
\* drafts and cancels with every query, type and id, the store failing or
\* not, while inventory is loaded.
NextTools ==
    \/ chat_view(1, "POST", SomeQuery)
    \/ \E query_str \in Queries, fault \in BOOLEAN : search_cars(query_str, fault)
    \/ \E user_id \in UserIdArgs, car_model_name \in Queries, type \in TypeArgs,
          fault \in BOOLEAN :
           create_transaction_draft(user_id, car_model_name, type, fault)
    \/ \E transaction_id \in TxnIdArgs, fault \in BOOLEAN :
           cancel_transaction(transaction_id, fault)
    \/ \E file_exists \in BOOLEAN, rows \in CsvFiles(CsvRows) :
           load_inventory(file_exists, rows)

SpecTools == Init /\ [][NextTools]_vars

\* The profile store: the two tools that write profiles, onboard_user with
\* every name and phone.
NextProfiles ==
    \/ chat_view(1, "POST", SomeQuery)
    \/ \E user_id \in UserIdArgs, full_name \in FullNames, nickname \in Nicknames,
          license_id \in LicenseIds, phone \in Phones, fault \in BOOLEAN :
           onboard_user(user_id, full_name, nickname, license_id, phone, fault)
    \/ \E user_id \in UserIdArgs, car_model_name \in SysQueries, type \in SysTypes,
          fault \in BOOLEAN :
           create_transaction_draft(user_id, car_model_name, type, fault)
    \/ \E file_exists \in BOOLEAN, rows \in CsvFiles(SysCsvRows) :
           load_inventory(file_exists, rows)

SpecProfiles == Init /\ [][NextProfiles]_vars

\* The turn orchestrator: chat turns that end with the agent's text, with a
\* fault the try block catches, or with a fault of the agent's construction,
\* and confirmation requests, over drafts the engine creates.  The agent's
\* texts here include a draft object that a stray word makes invalid JSON
\* and a draft object without the marker.
BrokenDraft == <<LB, W, MSG(1), TID(1), META, RB>>
UnmarkedDraft == <<LB, MSG(1), TID(1), RB>>
ChatTexts == AgentTexts \cup {BrokenDraft, UnmarkedDraft}

NextChat ==
    \/ \E s \in Sessions, method \in {"GET", "POST"}, user_query \in UserQueries :
           chat_view(s, method, user_query)
    \/ \E text \in ChatTexts : chat_view_agent_returns(text)
    \/ chat_view_agent_init_raises
    \/ chat_view_agent_raises
    \/ \E s \in Sessions, method \in {"GET", "POST"}, transaction_id \in TxnIdArgs :
           confirm_transaction(s, method, transaction_id)
    \/ \E user_id \in UserIdArgs, car_model_name \in SysQueries, type \in SysTypes,
          fault \in SysFaults :
           create_transaction_draft(user_id, car_model_name, type, fault)
    \/ \E file_exists \in BOOLEAN, rows \in CsvFiles(SysCsvRows) :
           load_inventory(file_exists, rows)

SpecChat == Init /\ [][NextChat]_vars

\* Cancellation over a store that already holds transactions: the state
\* after an inventory load of both models and MaxLedger drafts for identity 1,
\* each since confirmed, cancelled or left in DRAFT.
LedgerRows ==
    [customer : {1}, car : {1, 2}, type : SysTypes, status : TxnStatuses]

InitLedger ==
    /\ users = {1}
    /\ profiles = <<BlankProfile(1)>>
    /\ cars = <<[model_name |-> ModelX, status |-> "AVAILABLE"],
                [model_name |-> ModelXPro, status |-> "AVAILABLE"]>>
    /\ transactions \in [1..MaxLedger -> LedgerRows]
    /\ session = [s \in Sessions |->
                     [user |-> IF s = 1 THEN Anonymous ELSE 1,
                      has_history |-> FALSE,
                      chat_history |-> << >>]]
    /\ turn = NoTurn
    /\ last = [op |-> "none", out |-> "none", res |-> << >>, draft |-> 0]

LedgerIdArgs == 0..(MaxLedger + 1)

NextLedger ==
    \/ chat_view(1, "POST", SomeQuery)
    \/ chat_view_agent_raises
    \/ \E transaction_id \in LedgerIdArgs, fault \in BOOLEAN :
           cancel_transaction(transaction_id, fault)
    \/ \E transaction_id \in LedgerIdArgs : confirm_transaction(2, "POST", transaction_id)

SpecLedger == InitLedger /\ [][NextLedger]_vars

----------------------------------------------------------------------------
(* Transaction lifecycle and the confirmation entry point *)

Owner(transaction_id) == profiles[transactions[transaction_id].customer].user
Terminal == {"CONFIRMED", "CANCELLED"}

\* C1: a transaction whose status is CONFIRMED or CANCELLED keeps that status
\* in every later step.
TerminalStatusNeverChanges ==
    [][\A i \in Ids(transactions) :
           transactions[i].status \in Terminal
               => transactions'[i].status = transactions[i].status]_vars

\* C2: a confirmation request by the owner of a transaction that is not in
\* DRAFT does not succeed: it changes no transaction and appends nothing to
\* the log.
ConfirmSucceedsOnlyFromDraft ==
    [][last'.op = "confirm_transaction" =>
          \A s \in Sessions, i \in Ids(transactions) :
              ( /\ confirm_transaction(s, "POST", i)
                /\ Owner(i) = session[s].user
                /\ transactions[i].status # "DRAFT" )
                  => /\ last'.out # "redirect after confirm"
                     /\ transactions' = transactions
                     /\ session' = session]_vars

----------------------------------------------------------------------------
(* The tool library *)

FoldCase(str) == [k \in 1..Len(str) |-> Lower(str[k])]

\* q is a substring of name when case is ignored
ContainsIgnoringCase(name, q) ==
    \E i \in 1..(Len(name) + 1), j \in 0..Len(name) :
        SubSeq(FoldCase(name), i, j) = FoldCase(q)

\* the vehicles a query asks for
Wanted(q) ==
    {c \in Ids(cars) :
        cars[c].status = "AVAILABLE" /\ ContainsIgnoringCase(cars[c].model_name, q)}

IsDraftJson(res) == Len(res) = 5 /\ res[1] = LB /\ res[4] = META
DraftReturned == last.op = "create_transaction_draft" /\ IsDraftJson(last.res)
Newest(T) == T[Len(T)]

\* C4: a create_transaction_draft call that returns the draft JSON has added
\* exactly one transaction; it is in DRAFT, its customer is the profile of
\* the identity given, and its vehicle was AVAILABLE at the call and has a
\* model name that contains the requested text, case ignored.
DraftReferencesAvailableMatch ==
    [][DraftReturned' =>
          \A user_id \in UserIdArgs, q \in Queries, type \in TypeArgs, fault \in BOOLEAN :
              create_transaction_draft(user_id, q, type, fault) =>
                  /\ Len(transactions') = Len(transactions) + 1
                  /\ SubSeq(transactions', 1, Len(transactions)) = transactions
                  /\ Newest(transactions').status = "DRAFT"
                  /\ Newest(transactions').customer \in Ids(profiles')
                  /\ profiles'[Newest(transactions').customer].user = user_id
                  /\ Newest(transactions').car \in Wanted(q)]_vars

\* C4 happens: a draft was returned for the second vehicle while the first,
\* whose name every query for the second's name but "P" matches, is RENTED.
DraftSkipsRentedWitness ==
    /\ DraftReturned
    /\ Len(cars) = 2
    /\ cars[1].status = "RENTED"
    /\ Newest(transactions).car = 2

\* C17: a create_transaction_draft call that returns an error string, for an
\* identity that does not exist or for a model name no AVAILABLE vehicle
\* matches, creates no transaction and leaves every transaction and every
\* vehicle as it was.
DraftErrorChangesNothing ==
    [][(last'.op = "create_transaction_draft" /\ ~IsDraftJson(last'.res)) =>
          /\ transactions' = transactions
          /\ cars' = cars]_vars

\* C17 happens: with a draft in the store and an AVAILABLE vehicle to match,
\* a call returned an error string.
DraftErrorWitness ==
    /\ last.op = "create_transaction_draft"
    /\ ~IsDraftJson(last.res)
    /\ Len(transactions) = 1
    /\ AvailableCars(cars) # {}

NotFoundMsg == <<Tok("Error: Transaction not found.", 0)>>

\* C18: a cancel_transaction call the store answers, for an id that exists,
\* sets the status of that transaction to CANCELLED and changes no other
\* field of it, no other transaction and no other record; for an id that
\* does not exist it returns the not-found string and changes no record.
CancelChangesOnlyItsTransaction ==
    [][last'.op = "cancel_transaction" =>
          \A i \in LedgerIdArgs :
              cancel_transaction(i, FALSE) =>
                  /\ <<users', profiles', cars', session'>> = <<users, profiles, cars, session>>
                  /\ Len(transactions') = Len(transactions)
                  /\ \A j \in Ids(transactions) \ {i} : transactions'[j] = transactions[j]
                  /\ IF i \in Ids(transactions)
                     THEN /\ transactions'[i].status = "CANCELLED"
                          /\ transactions'[i].customer = transactions[i].customer
                          /\ transactions'[i].car = transactions[i].car
                          /\ transactions'[i].type = transactions[i].type
                          /\ last'.out = "returned" /\ last'.res # NotFoundMsg
                     ELSE last'.out = "returned" /\ last'.res = NotFoundMsg]_vars

\* C18 happens: one transaction of two was cancelled and the other is still
\* CONFIRMED or in DRAFT.
CancelOneOfTwoWitness ==
    /\ last.op = "cancel_transaction"
    /\ last.out = "returned" /\ last.res # NotFoundMsg
    /\ Len(transactions) >= 2
    /\ \E i, j \in Ids(transactions) :
          /\ last.res[1].v = i
          /\ transactions[i].status = "CANCELLED"
          /\ transactions[j].status # "CANCELLED"

ToolNames == {"onboard_user", "search_cars", "create_transaction_draft", "cancel_transaction"}

\* C5: whatever a tool is called with and whatever the store does, the tool
\* ends by returning a string, never by raising.
ToolFailuresAreReturned == last.op \in ToolNames => last.out = "returned"

Prose == UNION {[1..n -> {W, LB, RB}] : n \in 0..MaxProse}

\* C6: the draft JSON a tool returned, inside any prose, is extracted with
\* its message and its transaction id.
DraftJsonRoundTrip ==
    DraftReturned =>
        \A pre, post \in Prose :
            LET widget == extract_json_widget(pre \o last.res \o post)
            IN  /\ widget.found
                /\ widget.has_message /\ widget.message = last.res[2].v
                /\ widget.has_id /\ widget.transaction_id = last.res[3].v

\* C7: a search_cars call the store answers returns the no-results string
\* when no AVAILABLE vehicle's model name contains the query, case ignored,
\* and otherwise one line for each such vehicle and no other line.
SearchListsExactlyWanted ==
    [][(last'.op = "search_cars" /\ last'.out = "returned") =>
          \A q \in Queries :
              search_cars(q, FALSE) =>
                  IF Wanted(q) = {}
                  THEN last'.res = NoCarsFound
                  ELSE /\ Len(last'.res) = Cardinality(Wanted(q))
                       /\ \A k \in 1..Len(last'.res) : last'.res[k] = Line(last'.res[k].v)
                       /\ {last'.res[k].v : k \in 1..Len(last'.res)} = Wanted(q)]_vars

\* C7 happens: a search listed one vehicle of an inventory of two, the other
\* being RENTED or in MAINTENANCE.
SearchSkipsUnavailableWitness ==
    /\ last.op = "search_cars"
    /\ Len(cars) = 2
    /\ \E c \in Ids(cars) :
          /\ cars[c].status \in {"RENTED", "MAINTENANCE"}
          /\ last.res = <<Line(3 - c)>>

\* C8: an onboard_user call for an identity id that does not exist leaves
\* the profile rows as they were, and when the store answers it returns the
\* user-not-found string.
OnboardUnknownIdentityChangesNothing ==
    [][last'.op = "onboard_user" =>
          \A user_id \in UserIdArgs \ users, full_name \in FullNames,
             nickname \in Nicknames, license_id \in LicenseIds, phone \in Phones,
             fault \in BOOLEAN :
              onboard_user(user_id, full_name, nickname, license_id, phone, fault) =>
                  /\ profiles' = profiles
                  /\ ~fault => last'.out = "returned" /\ last'.res = UserNotFound]_vars

\* C8 happens: user-not-found was returned while an onboarded profile exists.
OnboardUnknownIdentityWitness ==
    /\ last.op = "onboard_user"
    /\ last.res = UserNotFound
    /\ \E p \in Ids(profiles) : profiles[p].full_name # Null

\* C9: after a successful onboard_user call, the same call again would leave
\* the profile rows exactly as they are.
OnboardTwiceSameAsOnce ==
    [][(last'.op = "onboard_user" /\ last'.out = "returned") =>
          \A user_id \in users, full_name \in FullNames, nickname \in Nicknames,
             license_id \in LicenseIds, phone \in Phones :
              onboard_user(user_id, full_name, nickname, license_id, phone, FALSE) =>
                  onboard_rows(profiles', user_id, full_name, nickname,
                               license_id, phone) = profiles']_vars

\* C9 happens: two identities are onboarded, one by calls with an empty
\* phone, one with a phone.
OnboardTwiceWitness ==
    /\ last.op = "onboard_user"
    /\ last.out = "returned"
    /\ \E p, r \in Ids(profiles) :
          /\ profiles[p].full_name # Null /\ profiles[p].phone = Null
          /\ profiles[r].full_name # Null /\ profiles[r].phone # Null

\* C10: the vehicle of a returned draft is the one with the lowest id among
\* the AVAILABLE vehicles whose model name contains the requested text.
DraftPicksLowestId ==
    [][DraftReturned' =>
          \A user_id \in UserIdArgs, q \in Queries, type \in TypeArgs, fault \in BOOLEAN :
              create_transaction_draft(user_id, q, type, fault) =>
                  \A c \in Wanted(q) : Newest(transactions').car <= c]_vars

\* C10 happens: "Model X" and "Model X Pro" are both AVAILABLE and a draft
\* was returned for "Model X", the first of them.
DraftPicksFirstOfTwoWitness ==
    /\ DraftReturned
    /\ Len(cars) = 2
    /\ cars[1] = [model_name |-> ModelX, status |-> "AVAILABLE"]
    /\ cars[2] = [model_name |-> ModelXPro, status |-> "AVAILABLE"]
    /\ Newest(transactions).car = 1

----------------------------------------------------------------------------
(* The turn orchestrator *)

\* a session's log; one that no chat request has initialised yet holds nothing
LogOf(S, s) == IF S[s].has_history THEN S[s].chat_history ELSE << >>
Log(s) == LogOf(session, s)
LogAfter(s) == LogOf(session', s)
StartsWithError(text) == Len(text) >= 1 /\ text[1].t = "Error:"

\* C11: a chat turn in which the agent's construction, the agent or a tool
\* call raised does not crash: it renders, having appended to the log, right
\* after the turn's USER entry, one AI entry that starts with "Error:", and
\* surfaces no draft.
AgentFailureBecomesErrorEntry ==
    [][(chat_view_agent_init_raises \/ chat_view_agent_raises) =>
          /\ last'.out # "raised"
          /\ Len(session'[turn].chat_history) = Len(session[turn].chat_history) + 1
          /\ SubSeq(session'[turn].chat_history, 1, Len(session[turn].chat_history))
                 = session[turn].chat_history
          /\ Newest(session[turn].chat_history).role = "user"
          /\ Newest(session'[turn].chat_history).role = "ai"
          /\ StartsWithError(Newest(session'[turn].chat_history).text)
          /\ last'.draft = 0]_vars

IsPrefix(a, b) == Len(a) <= Len(b) /\ SubSeq(b, 1, Len(a)) = a

\* C14: no step removes, reorders or changes an entry of a session's log; a
\* chat request with non-empty text appends one USER entry, nothing touches
\* that log while the turn runs, and the turn ends by appending one AI entry
\* right after it; a chat request with empty or missing text leaves every
\* log as it was.
LogIsAppendOnly ==
    [][/\ \A s \in Sessions : IsPrefix(Log(s), LogAfter(s))
       /\ (turn = NoTurn /\ turn' # NoTurn) =>
              /\ Len(LogAfter(turn')) = Len(Log(turn')) + 1
              /\ Newest(LogAfter(turn')).role = "user"
       /\ (turn # NoTurn /\ turn' # NoTurn) => LogAfter(turn) = Log(turn)
       /\ (turn # NoTurn /\ turn' = NoTurn) =>
              /\ Len(LogAfter(turn)) = Len(Log(turn)) + 1
              /\ Newest(Log(turn)).role = "user"
              /\ Newest(LogAfter(turn)).role = "ai"
       /\ (last'.op = "chat_view" /\ turn = NoTurn /\ turn' = NoTurn) =>
              \A s \in Sessions : LogAfter(s) = Log(s)]_vars

\* C16: when the agent's text has no match of the marker pattern, or the
\* matched text is not valid JSON, the turn renders without an error, the AI
\* entry it appends is the agent's text unchanged, and no draft is surfaced.
UnparsedTextPassesThrough ==
    [][(last'.op = "chat_view" /\ turn # NoTurn /\ turn' = NoTurn) =>
          \A text \in ChatTexts :
              ( /\ chat_view_agent_returns(text)
                /\ (regex_group(text) = << >> \/ ~json_valid(regex_group(text))) )
                  => /\ last'.out = "rendered"
                     /\ LogAfter(turn) = Append(Log(turn), AiEntry(text))
                     /\ last'.draft = 0]_vars

\* C16 happens: the agent's text was a draft object that is not valid JSON,
\* naming a transaction that exists, and it was shown as it is.
UnparsedTextWitness ==
    /\ last.op = "chat_view"
    /\ last.out = "rendered"
    /\ last.res = BrokenDraft
    /\ 1 \in Ids(transactions)

\* C15: a confirmation request whose lookup finds the transaction sets its
\* status to CONFIRMED and appends exactly one AI confirmation message to the
\* caller's log, also in a session whose log no chat request has initialised.
ConfirmAlwaysAppendsMessage ==
    [][last'.op = "confirm_transaction" =>
          \A s \in Sessions, i \in TxnIdArgs :
              ( /\ confirm_transaction(s, "POST", i)
                /\ confirm_lookup(transactions, profiles, i, session[s].user) )
                  => /\ transactions'[i].status = "CONFIRMED"
                     /\ LogAfter(s) = Append(Log(s), AiEntry(ConfirmedMsg(i)))]_vars

\* C19: the transaction a chat turn surfaces for confirmation is in DRAFT and
\* belongs to the profile of the identity whose turn it is, whatever id the
\* agent's text carries and whatever the tools did during the turn.
SurfacedDraftIsCallersDraft ==
    [][(turn # NoTurn /\ turn' = NoTurn /\ last'.draft # 0) =>
          /\ last'.draft \in Ids(transactions)
          /\ transactions[last'.draft].status = "DRAFT"
          /\ Owner(last'.draft) = session[turn].user]_vars

----------------------------------------------------------------------------
(* The record store *)

\* C20: no call of onboard_user, search_cars, create_transaction_draft or
\* cancel_transaction and no confirmation request changes a vehicle record,
\* so the vehicles a draft can be made for stay the same while transactions
\* reference them.
ToolsAndConfirmLeaveVehicles ==
    [][last'.op \in ToolNames \cup {"confirm_transaction"} =>
          /\ cars' = cars
          /\ \A q \in Queries : MatchingAvailable(cars', q) = MatchingAvailable(cars, q)]_vars

\* C20 happens: a confirmation has just succeeded and the vehicle of the
\* CONFIRMED transaction is still AVAILABLE and found by a draft's lookup.
VehicleStaysAvailableWitness ==
    /\ last.op = "confirm_transaction"
    /\ last.out = "redirect after confirm"
    /\ \E i \in Ids(transactions) :
          /\ transactions[i].status = "CONFIRMED"
          /\ cars[transactions[i].car].status = "AVAILABLE"
          /\ transactions[i].car \in MatchingAvailable(cars, <<"x">>)

\* C12: every transaction's type is TEST_DRIVE or PURCHASE and its status is
\* DRAFT, CONFIRMED or CANCELLED, and every vehicle's status is AVAILABLE,
\* RENTED or MAINTENANCE, whatever type the engine passes and whatever
\* status the inventory file holds.
StoredChoicesAreValid ==
    /\ \A i \in Ids(transactions) :
          /\ transactions[i].type \in TxnTypes
          /\ transactions[i].status \in TxnStatuses
    /\ \A c \in Ids(cars) : cars[c].status \in CarStatuses

\* C13: whatever onboard_user and create_transaction_draft calls were made,
\* for identities that exist or not, each identity has at most one profile,
\* every profile belongs to an identity that exists, and every transaction
\* references a profile and a vehicle that exist.
OneProfilePerIdentity ==
    /\ \A user_id \in UserIdArgs : Cardinality(ProfilesOf(profiles, user_id)) <= 1
    /\ \A p \in Ids(profiles) : profiles[p].user \in users
    /\ \A i \in Ids(transactions) :
          /\ transactions[i].customer \in Ids(profiles)
          /\ transactions[i].car \in Ids(cars)

\* C13 happens: two identities each have a profile, one of them written by
\* onboard_user and found again by the create_transaction_draft call that
\* has just returned its draft.
OneProfilePerIdentityWitness ==
    /\ DraftReturned
    /\ Len(profiles) = 2
    /\ profiles[1].user # profiles[2].user
    /\ profiles[Newest(transactions).customer].full_name # Null

====
